---- MODULE Spec2Model ----
(***************************************************************************)
(* Buffered write / rotate / bundle engine of shared_options:              *)
(* services/file_manager.py (FileManager), services/shutdown_handler.py    *)
(* (ShutdownManager) and models/OptionDataManager.py.                      *)
(*                                                                         *)
(* Records are the integers 1, 2, 3, ... in the order add_entry received   *)
(* them.  A file is the sequence of the records written to it, one per     *)
(* line; its size is its number of lines.  Every section of code that runs *)
(* under FileManager._lock is one action; _combine_files, which runs       *)
(* without the lock, is a sequence of steps per combining thread. SpecLock *)
(* runs the locked sections statement by statement, thread by thread.      *)
(***************************************************************************)
EXTENDS Integers, Sequences, FiniteSets, TLC

\* ---------------------------------------------------------------- bounds
MaxRecords == 3        \* records a producer adds in one process lifetime
MaxBufferSize == 2     \* FileManager(max_buffer_size=...)
MaxCounter == 2        \* cap on _temp_file_counter
MaxFaults == 1         \* injected I/O failures per behaviour
MaxRestarts == 1       \* process restarts per behaviour
DiskSize == 4          \* largest free-space reading
LowSpace == 2          \* FileManager(low_space_bytes=...)
BundleLimit == 1       \* combine_and_rotate(bundle_limit=...)

\* ------------------------------------------------------- sequence helpers
RECURSIVE Flatten(_)
Flatten(ss) == IF ss = <<>> THEN <<>> ELSE Head(ss) \o Flatten(Tail(ss))

Range(s) == {s[i] : i \in DOMAIN s}

Occurrences(s, x) == Cardinality({i \in DOMAIN s : s[i] = x})

Increasing(s) == \A i, j \in DOMAIN s : i < j => s[i] < s[j]

Prefix(s, n) == SubSeq(s, 1, n)

\* ------------------------------------------------------------ file names
\* f"{index:06d}": at least six decimal digits, zero padded
UnitNameWidth == 6

RECURSIVE Digits(_)
Digits(n) == IF n < 10 THEN <<n>> ELSE Digits(n \div 10) \o <<n % 10>>

RECURSIVE ZeroPad(_, _)
ZeroPad(d, w) == IF Len(d) >= w THEN d ELSE ZeroPad(<<0>> \o d, w)

UnitName(index) == ZeroPad(Digits(index), UnitNameWidth)

\* order of two paths under sorted(): character by character, the shorter
\* name first when one is a prefix of the other
RECURSIVE NameLess(_, _)
NameLess(a, b) ==
    IF a = <<>> THEN b # <<>>
    ELSE IF b = <<>> THEN FALSE
    ELSE IF Head(a) # Head(b) THEN Head(a) < Head(b)
    ELSE NameLess(Tail(a), Tail(b))

\* sorted(self.temp_dir.glob("*.jsonl")) over the unit indices in S
RECURSIVE SortedUnits(_)
SortedUnits(S) ==
    IF S = {} THEN <<>>
    ELSE LET m == CHOOSE x \in S :
                     \A y \in S \ {x} : NameLess(UnitName(x), UnitName(y))
         IN <<m>> \o SortedUnits(S \ {m})

\* sorted(..., key=lambda p: p.stat().st_mtime): units are created in
\* ascending index order, so oldest first is lowest index first
RECURSIVE OldestFirst(_)
OldestFirst(S) ==
    IF S = {} THEN <<>>
    ELSE LET m == CHOOSE x \in S : \A y \in S : x <= y
         IN <<m>> \o OldestFirst(S \ {m})

\* ------------------------------------------------------------ file system
Remove(f, k) == [i \in DOMAIN f \ {k} |-> f[i]]

Put(f, k, v) == [i \in DOMAIN f \cup {k} |-> IF i = k THEN v ELSE f[i]]

\* a line of a unit file that json.loads rejects
Malformed == 0

NoFiles == [i \in {} |-> <<>>]

\* _has_free_space(path, min_free)
HasFreeSpace(free) == free >= LowSpace

Grow(free, n) == IF free + n > DiskSize THEN DiskSize ELSE free + n

\* ------------------------------------------------------ emergency cleanup
\* A bundle file is [id |-> creation stamp, content |-> its JSON array];
\* the sequence of bundles on disk is in creation (modification time) order.
\* Step 1 of _emergency_cleanup: unlink bundles oldest first, stop at the
\* first deletion after which _has_free_space is true.
RECURSIVE EvictBundles(_, _)
EvictBundles(bs, free) ==
    IF bs = <<>> THEN [bundles |-> bs, free |-> free, ok |-> FALSE]
    ELSE LET f == Grow(free, Len(Head(bs).content))
         IN IF HasFreeSpace(f)
            THEN [bundles |-> Tail(bs), free |-> f, ok |-> TRUE]
            ELSE EvictBundles(Tail(bs), f)

\* Step 2 of _emergency_cleanup: unlink numbered units oldest first, with
\* the same re-check after each deletion.
RECURSIVE EvictUnits(_, _, _)
EvictUnits(order, us, free) ==
    IF order = <<>> THEN [units |-> us, free |-> free]
    ELSE LET f == Grow(free, Len(us[Head(order)].content))
         IN IF HasFreeSpace(f)
            THEN [units |-> Remove(us, Head(order)), free |-> f]
            ELSE EvictUnits(Tail(order), Remove(us, Head(order)), f)

\* a cleanup that starts with the numbered units
EmergencyCleanupUnitsFirst(bs, us, free) ==
    LET u == EvictUnits(OldestFirst(DOMAIN us), us, free)
    IN IF HasFreeSpace(u.free)
       THEN [bundles |-> bs, units |-> u.units, free |-> u.free]
       ELSE LET b == EvictBundles(bs, u.free)
            IN [bundles |-> b.bundles, units |-> u.units, free |-> b.free]

\* _emergency_cleanup when no call in it raises
EmergencyCleanup(bs, us, free) ==
    LET b == EvictBundles(bs, free)
    IN IF b.ok
       THEN [bundles |-> b.bundles, units |-> us, free |-> b.free]
       ELSE LET u == EvictUnits(OldestFirst(DOMAIN us), us, b.free)
            IN [bundles |-> b.bundles, units |-> u.units, free |-> u.free]

\* Where _emergency_cleanup can meet an exception (a file that a combine or
\* an upload removed in the meantime, a permission error):
\*   "sort_bundles" p.stat() raises in the sort key of the bundle listing
\*   "sort_units"   p.stat() raises in the sort key of the unit listing
\*   "unlink"       stat() or unlink() of the first file tried raises
CleanupFaults == {"sort_bundles", "sort_units", "unlink"}

\* a cleanup without the try block around its body
OuterExceptMissing(fault) == fault \in {"sort_bundles", "sort_units"}

\* whether an exception in the cleanup reaches the caller: never, the body
\* is one try block whose except only logs
OuterExcept(fault) == FALSE

\* the directory and the free space a cleanup leaves
Disk(bs, us, free) == [bundles |-> bs, units |-> us, free |-> free]

\* the cleanup ends after its bundle loop, b: what the loop left
AfterBundleLoop(b, us) == Disk(b.bundles, us, b.free)

\* the cleanup ends after its unit loop, u: what the loop left
AfterUnitLoop(bs, u) == Disk(bs, u.units, u.free)

\* the first bundle could not be deleted and stays, r: the cleanup of the
\* rest
FirstBundleKept(first, r) == Disk(<<first>> \o r.bundles, r.units, r.free)

\* what _emergency_cleanup returns to its caller: the disk it left and
\* whether an exception came out of it
Returned(done, raised) ==
    [bundles |-> done.bundles, units |-> done.units, free |-> done.free,
     raised |-> raised]

\* _emergency_cleanup with the exception fault: the per-file except blocks
\* go on with the next file, the outer one ends the cleanup where it is
CleanupWith(bs, us, free, fault) ==
    CASE fault = "sort_bundles" -> Disk(bs, us, free)
      [] fault = "sort_units" -> AfterBundleLoop(EvictBundles(bs, free), us)
      [] fault = "unlink" /\ bs # <<>> ->
           FirstBundleKept(Head(bs), EmergencyCleanup(Tail(bs), us, free))
      [] fault = "unlink" /\ bs = <<>> /\ us # NoFiles ->
           AfterUnitLoop(bs, EvictUnits(Tail(OldestFirst(DOMAIN us)), us,
                                        free))
      [] OTHER -> EmergencyCleanup(bs, us, free)

\* _emergency_cleanup as its callers see it
Cleanup(bs, us, free, fault) ==
    Returned(CleanupWith(bs, us, free, fault), OuterExcept(fault))

\* ----------------------------------------------------- atomic unit writer
\* Where _write_temp_file_atomic can raise:
\*   "open"        open(tmp_path, "w") raises, no file is created
\*   "write"       f.write / f.flush raises after k lines, tmp is unlinked
\*   "write_stuck" as "write", and tmp_path.unlink() raises too (swallowed)
\*   "replace"     os.replace raises, tmp is unlinked
\*   "post"        the rename is done and the size stat or the log call of
\*                 the last line of the try block raises
WriteFaults == {"open", "write", "write_stuck", "replace", "post"}

\* the lines that reached the file when the k-th write raised
Written(entries, k) ==
    Prefix(entries, IF k < Len(entries) THEN k ELSE Len(entries) - 1)

\* a file as written: its lines, and (history) the batch its writer was given
File(lines, batch) == [content |-> lines, batch |-> batch]

\* a writer that opens final_path itself and writes the lines in place
AfterFailedWriteInPlace(us, tmps, index, entries, part, stuck) ==
    [units |-> Put(us, index, File(part, entries)), unitTmps |-> tmps]

\* an except block that re-raises without removing tmp_path
AfterFailedWriteKeepTmp(us, tmps, index, entries, part, stuck) ==
    [units |-> us, unitTmps |-> Put(tmps, index, File(part, entries))]

\* the files after a write that raised before the rename: the lines went to
\* tmp_path, which the except block unlinks unless the unlink raises too
AfterFailedWrite(us, tmps, index, entries, part, stuck) ==
    [units |-> us,
     unitTmps |-> IF stuck THEN Put(tmps, index, File(part, entries))
                  ELSE tmps]

\* a writer that leaves the last line of the batch out
AfterReplaceShort(us, tmps, index, entries) ==
    [units |-> Put(us, index,
                   File(Prefix(entries, Len(entries) - 1), entries)),
     unitTmps |-> tmps]

\* the files after os.replace(tmp_path, final_path)
AfterReplace(us, tmps, index, entries) ==
    [units |-> Put(us, index, File(entries, entries)), unitTmps |-> tmps]

WriteTempFileAtomic(entries, ctr, us, tmps, fault, k) ==
    LET index == ctr + 1
        f == CASE fault \in {"none", "post"} ->
                    AfterReplace(us, tmps, index, entries)
               [] fault \in {"write", "write_stuck"} ->
                    AfterFailedWrite(us, tmps, index, entries,
                                     Written(entries, k),
                                     fault = "write_stuck")
               [] OTHER -> [units |-> us, unitTmps |-> tmps]
    IN [counter |-> index, units |-> f.units, unitTmps |-> f.unitTmps,
        raised |-> fault # "none"]

\* ------------------------------------------------------------ _flush_locked
\* a low-space path that forgets the snapshot
LowSpaceReturnDropped(entries, current) == current

\* self._buffer = entries + self._buffer, on the low-space path
LowSpaceReturn(entries, current) == entries \o current

\* except blocks that only log
WriteErrorReturnDropped(entries, current) == current

\* self._buffer = entries + self._buffer, in the two except blocks
WriteErrorReturn(entries, current) == entries \o current

\* the part of a fault choice that concerns the write
WriteFault(fault) == IF fault \in WriteFaults THEN fault ELSE "none"

\* outcome: "empty" (early return), "lowspace" (batch returned after the
\* cleanup did not help), "failed" (the write raised, batch returned),
\* "written", "raised" (an exception left _flush_locked after the snapshot)
FlushLocked(buf, ctr, us, tmps, bs, free, fault, k) ==
    IF buf = <<>>
    THEN [buffer |-> buf, counter |-> ctr, units |-> us, unitTmps |-> tmps,
          bundles |-> bs, free |-> free, outcome |-> "empty"]
    ELSE LET entries == buf
             emptied == <<>>
             c == IF ~HasFreeSpace(free)
                  THEN Cleanup(bs, us, free, fault)
                  ELSE [bundles |-> bs, units |-> us, free |-> free,
                        raised |-> FALSE]
         IN IF c.raised
            THEN [buffer |-> emptied, counter |-> ctr, units |-> c.units,
                  unitTmps |-> tmps, bundles |-> c.bundles, free |-> c.free,
                  outcome |-> "raised"]
            ELSE IF ~HasFreeSpace(c.free)
            THEN [buffer |-> LowSpaceReturn(entries, emptied),
                  counter |-> ctr, units |-> c.units, unitTmps |-> tmps,
                  bundles |-> c.bundles, free |-> c.free,
                  outcome |-> "lowspace"]
            ELSE LET w == WriteTempFileAtomic(entries, ctr, c.units, tmps,
                                              WriteFault(fault), k)
                 IN [buffer |-> IF w.raised
                                THEN WriteErrorReturn(entries, emptied)
                                ELSE emptied,
                     counter |-> w.counter, units |-> w.units,
                     unitTmps |-> w.unitTmps, bundles |-> c.bundles,
                     free |-> c.free,
                     outcome |-> IF w.raised THEN "failed" ELSE "written"]

\* a counter that starts from 0 whatever the directory holds
InitTempCounterZero(us) == 0

\* _init_temp_counter: the largest all-digit stem among the *.jsonl files,
\* 0 when there is none
InitTempCounter(us) ==
    IF DOMAIN us = {} THEN 0
    ELSE CHOOSE m \in DOMAIN us : \A i \in DOMAIN us : i <= m

\* ------------------------------------------------------------------ state
Combiners == {"rotate", "final"}

\* the threads that call into one FileManager: producers calling add_entry,
\* the manager's own _flush_loop thread, and the thread that calls close()
Producers == {"producer1", "producer2"}
Threads == Producers \cup {"flush_loop", "closer"}

VARIABLES
    buffer,      \* FileManager._buffer
    counter,     \* FileManager._temp_file_counter
    ownStop,     \* the Event FileManager made for itself is set
    sharedStop,  \* TRUE: FileManager was given ShutdownManager's stop event
    smInit,      \* ShutdownManager._initialized
    smStop,      \* ShutdownManager._stop_event is set
    smCallbacks, \* ShutdownManager._callbacks, by name
    stopBundler, \* OptionDataManager._stop_bundler is set
    units,       \* temp_dir/NNNNNN.jsonl: index -> lines
    unitTmps,    \* temp_dir/.NNNNNN.jsonl.tmp: index -> lines
    bundles,     \* {stem}_bundle_{stamp}.json files, oldest first
    bundleTmps,  \* .{bundle name}.tmp files left behind
    diskFree,    \* shutil.disk_usage(parent).free
    comb,        \* per combining thread: the locals of _combine_files
    sending,     \* stamps of the bundles handed to a _send_background thread
    lockOwner,   \* the thread that holds FileManager._lock, or "none"
    thr,         \* per thread: where it is in its FileManager call, the
                 \* locals of the flush it runs, the last index it took
    nAdded,      \* history: number of records add_entry has received
    bundled,     \* history: the records of every bundle that reached its
                 \*          final name, bundle after bundle
    nBundles,    \* history: number of bundle writes started (time stamps)
    usedNames,   \* history: <<index, process>> of every unit that reached
                 \*          its final name
    attempts,    \* history: the index each unit write attempt of this
                 \*          process took
    last,        \* history: the last FileManager operation and its result
    lastCombine, \* history: how the last _combine_files ended
    faults,      \* history: injected failures charged against MaxFaults
    closes,      \* history: calls of FileManager.close() in this process
    restarts     \* history: process restarts so far

fmVars == <<buffer, counter, ownStop, sharedStop>>
smVars == <<smInit, smStop, smCallbacks, stopBundler>>
diskVars == <<units, unitTmps, bundles, bundleTmps, diskFree>>
histVars == <<nAdded, bundled, nBundles, usedNames, attempts, last,
              lastCombine, faults, closes, restarts>>
lockVars == <<lockOwner, thr>>
vars == <<fmVars, smVars, diskVars, comb, sending, lockVars, histVars>>

\* self._stop_event.is_set()
StopIsSet == IF sharedStop THEN smStop ELSE ownStop

\* a combining thread: temp_files is the sorted directory listing, files the
\* part of it handed to _combine_files, pos the file it is at
IdleCombiner ==
    [pc |-> "idle", temp_files |-> <<>>, files |-> <<>>, pos |-> 1,
     entries |-> <<>>, sources |-> <<>>]

NoOp == [op |-> "none", outcome |-> "none"]

IdleThread == [pc |-> "idle", entries |-> <<>>, read |-> 0, index |-> 0]

\* FileManager.__init__ run in a fresh process on the directory as it is:
\* the logger singleton registers its exit callback (getLogger), then the
\* manager registers close().  init: ShutdownManager.init() ran first;
\* shared: the manager was given ShutdownManager.stop_event().
Construct(init, shared) ==
    /\ buffer' = <<>>
    /\ counter' = InitTempCounter(units)
    /\ ownStop' = FALSE
    /\ sharedStop' = shared
    /\ smInit' = init
    /\ smStop' = FALSE
    /\ smCallbacks' = <<"logger", "manager">>
    /\ stopBundler' = FALSE
    /\ comb' = [c \in Combiners |-> IdleCombiner]
    /\ sending' = {}
    /\ lockOwner' = "none"
    /\ thr' = [t \in Threads |-> IdleThread]
    /\ attempts' = <<>>
    /\ lastCombine' = "none"
    /\ closes' = 0

\* the manager and the directory after construction on an empty directory
Fresh ==
    /\ buffer = <<>>
    /\ counter = 0
    /\ ownStop = FALSE
    /\ smStop = FALSE
    /\ smCallbacks = <<"logger", "manager">>
    /\ stopBundler = FALSE
    /\ units = NoFiles
    /\ unitTmps = NoFiles
    /\ bundles = <<>>
    /\ bundleTmps = {}
    /\ diskFree = DiskSize
    /\ comb = [c \in Combiners |-> IdleCombiner]
    /\ sending = {}
    /\ lockOwner = "none"
    /\ thr = [t \in Threads |-> IdleThread]
    /\ nAdded = 0
    /\ bundled = <<>>
    /\ nBundles = 0
    /\ usedNames = {}
    /\ attempts = <<>>
    /\ last = NoOp
    /\ lastCombine = "none"
    /\ closes = 0
    /\ restarts = 0

\* the state after construction, for the ways the process can have set up
\* ShutdownManager before it
InitShutdown ==
    /\ Fresh
    /\ smInit \in BOOLEAN
    /\ sharedStop \in {s \in BOOLEAN : s => smInit}
    /\ faults = 0

\* FileManager(filepath) with its own stop event, ShutdownManager.init()
\* not called
Init == InitShutdown /\ ~smInit

\* as Init, in an environment where no file operation fails: the budget of
\* injected failures is spent from the start
InitReliable ==
    /\ Fresh
    /\ smInit = FALSE
    /\ sharedStop = FALSE
    /\ faults = MaxFaults

\* ------------------------------------------------- operations under _lock
\* the environment's part of one flush: which step fails, after how many
\* lines; a failure counts against MaxFaults
FaultChoices ==
    IF faults < MaxFaults
    THEN WriteFaults \cup {"none"}
         \cup (IF HasFreeSpace(diskFree) THEN {} ELSE CleanupFaults)
    ELSE {"none"}

\* how many lines reached the temp file before the failing write; it only
\* shows when the temp file stays behind
PartialChoices(b, fault) ==
    IF fault = "write_stuck" /\ b # <<>> THEN 0..(Len(b) - 1) ELSE {0}

\* the state after _flush_locked ran on buffer b, recorded under op
ApplyFlush(op, b, fault, k) ==
    \E r \in {FlushLocked(b, counter, units, unitTmps, bundles, diskFree,
                          fault, k)} :
    LET tried == r.counter # counter
    IN /\ buffer' = r.buffer
       /\ counter' = r.counter
       /\ units' = r.units
       /\ unitTmps' = r.unitTmps
       /\ bundles' = r.bundles
       /\ diskFree' = r.free
       /\ attempts' = IF tried THEN Append(attempts, r.counter) ELSE attempts
       /\ usedNames' = IF r.counter \in DOMAIN r.units /\ tried
                       THEN usedNames \cup {<<r.counter, restarts>>}
                       ELSE usedNames
       /\ faults' = IF \/ r.outcome = "failed" /\ fault # "none"
                       \/ b # <<>> /\ fault \in CleanupFaults
                    THEN faults + 1 ELSE faults
       /\ last' = [op |-> op, outcome |-> r.outcome]

\* add_entry(entry)
AddEntry ==
    /\ nAdded < MaxRecords
    /\ counter < MaxCounter
    /\ nAdded' = nAdded + 1
    /\ LET b == Append(buffer, nAdded + 1)
       IN IF Len(b) >= MaxBufferSize
          THEN \E fault \in FaultChoices : \E k \in PartialChoices(b, fault) :
                   ApplyFlush("add", b, fault, k)
          ELSE /\ buffer' = b
               /\ last' = [NoOp EXCEPT !.op = "add"]
               /\ UNCHANGED <<counter, diskVars, attempts, usedNames, faults>>
    /\ UNCHANGED <<ownStop, sharedStop, smVars, bundleTmps, comb, sending,
                   lockVars,
                   bundled, nBundles, lastCombine, closes, restarts>>

\* one iteration of _flush_loop
FlushTick ==
    /\ ~StopIsSet
    /\ counter < MaxCounter
    /\ \E fault \in FaultChoices : \E k \in PartialChoices(buffer, fault) :
           /\ fault = "none" \/ buffer # <<>>
           /\ ApplyFlush("tick", buffer, fault, k)
    /\ UNCHANGED <<ownStop, sharedStop, smVars, bundleTmps, comb, sending,
                   lockVars,
                   nAdded, bundled, nBundles, lastCombine, closes, restarts>>

MaxCloses == 2         \* calls of close() followed per process

\* a close() that runs the final flush on every call
CloseCallAlways(seen) ==
    /\ closes' = closes + 1
    /\ \E fault \in FaultChoices :
       \E k \in PartialChoices(buffer, fault) :
           /\ fault = "none" \/ buffer # <<>>
           /\ ApplyFlush("close", buffer, fault, k)

\* close(): returns at once when the stop event is already set (seen), else
\* sets it and runs the final flush; the join changes no field
CloseCall(seen) ==
    /\ closes' = closes + 1
    /\ IF seen
       THEN /\ last' = [NoOp EXCEPT !.op = "close", !.outcome = "returned"]
            /\ UNCHANGED <<buffer, counter, units, unitTmps, bundles,
                           diskFree, attempts, usedNames, faults>>
       ELSE \E fault \in FaultChoices :
            \E k \in PartialChoices(buffer, fault) :
                /\ fault = "none" \/ buffer # <<>>
                /\ ApplyFlush("close", buffer, fault, k)

\* FileManager.close() called directly
Close ==
    /\ closes < MaxCloses
    /\ counter < MaxCounter
    /\ CloseCall(StopIsSet)
    /\ IF sharedStop
       THEN smStop' = TRUE /\ UNCHANGED ownStop
       ELSE ownStop' = TRUE /\ UNCHANGED smStop
    /\ UNCHANGED <<sharedStop, smInit, smCallbacks, stopBundler, bundleTmps,
                   comb, sending, lockVars, nAdded, bundled, nBundles,
                   lastCombine, restarts>>

\* OptionDataManager.close() up to the return of file_manager.close(); the
\* combine_temp_files() that follows is the "final" combining thread
ODMClose ==
    /\ closes < MaxCloses
    /\ counter < MaxCounter
    /\ stopBundler' = TRUE
    /\ CloseCall(StopIsSet)
    /\ IF sharedStop
       THEN smStop' = TRUE /\ UNCHANGED ownStop
       ELSE ownStop' = TRUE /\ UNCHANGED smStop
    /\ UNCHANGED <<sharedStop, smInit, smCallbacks, bundleTmps,
                   comb, sending, lockVars, nAdded, bundled, nBundles,
                   lastCombine, restarts>>

\* ShutdownManager.init(): a second call only logs
SMInit ==
    /\ ~smInit
    /\ smInit' = TRUE
    /\ smStop' = FALSE
    /\ smCallbacks' = <<>>
    /\ UNCHANGED <<fmVars, lockVars, stopBundler, diskVars, comb, sending,
                   histVars>>

MaxCallbacks == 3      \* registered callbacks followed

\* an object that is not callable, handed to register
NotCallable == "not_callable"

\* a register that appends whatever it is given
CallableAnything(cb) == TRUE

\* callable(callback)
Callable(cb) == cb # NotCallable

\* ShutdownManager.register(name, callback), called by another component
\* of the process with its own callback or with a non-callable
Register(cb) ==
    /\ IF ~Callable(cb)
       THEN /\ last' = [op |-> "register", outcome |-> "raised"]
            /\ UNCHANGED smCallbacks
       ELSE /\ Len(smCallbacks) < MaxCallbacks
            /\ smCallbacks' = Append(smCallbacks, cb)
            /\ last' = [op |-> "register", outcome |-> "registered"]
    /\ UNCHANGED <<fmVars, lockVars, smInit, smStop, stopBundler, diskVars,
                   comb, sending, nAdded, bundled, nBundles, usedNames,
                   attempts, lastCombine, faults, closes, restarts>>

\* the registered callbacks that raise when called: the logger's exit
\* callback calls self.log, which Logger does not define, and calling a
\* non-callable is a TypeError
Raises(cb) == cb \in {"logger", NotCallable}

\* a loop without the try block: it ends at the first callback that raises
RECURSIVE InvokedUntilRaise(_)
InvokedUntilRaise(cbs) ==
    IF cbs = <<>> THEN <<>>
    ELSE IF Raises(Head(cbs)) THEN <<Head(cbs)>>
    ELSE <<Head(cbs)>> \o InvokedUntilRaise(Tail(cbs))

\* for cb in cls._callbacks: try cb(reason), except Exception: log.  The
\* callbacks the loop calls, in the order it calls them
RECURSIVE Invoked(_)
Invoked(cbs) ==
    IF cbs = <<>> THEN <<>>
    ELSE <<Head(cbs)>> \o Invoked(Tail(cbs))

\* a stop_all that clears an event it finds set
StopEventToggled(init, stop) == init /\ ~stop

\* if cls._stop_event: cls._stop_event.set(), the event's flag afterwards;
\* init: there is an event, stop: it is set
StopEventSet(init, stop) == init \/ stop

\* a stop_all that calls the callbacks first and sets the event afterwards
EventSeenBefore(before, after) == before

\* the flag the callbacks find: the set() of lines 36-37 comes before the
\* loop over the callbacks, so they find the event as the set() left it
EventSeen(before, after) == after

\* ShutdownManager.stop_all(): set the stop event when there is one, then
\* call the callbacks in order; the logger's callback raises and is caught,
\* the manager's callback is close()
StopAll ==
    LET setNow == StopEventSet(smInit, smStop)
        called == "manager" \in Range(Invoked(smCallbacks))
    IN /\ smStop' = setNow
       /\ IF called
          THEN /\ closes < MaxCloses
               /\ counter < MaxCounter
               /\ CloseCall(IF sharedStop THEN EventSeen(smStop, setNow)
                            ELSE ownStop)
               /\ ownStop' = (ownStop \/ ~sharedStop)
          ELSE /\ smStop # setNow
               /\ last' = [NoOp EXCEPT !.op = "stop_all"]
               /\ UNCHANGED <<buffer, counter, units, unitTmps, bundles,
                              diskFree, attempts, usedNames, faults, closes,
                              ownStop>>
       /\ UNCHANGED <<sharedStop, smInit, smCallbacks, stopBundler,
                      bundleTmps, comb, sending, lockVars, nAdded,
                      bundled, nBundles, lastCombine, restarts>>

\* other processes fill or free the disk
SetDiskFree ==
    /\ \E v \in {0, DiskSize} : v # diskFree /\ diskFree' = v
    /\ UNCHANGED <<fmVars, lockVars, smVars, units, unitTmps, bundles,
                   bundleTmps, comb, sending, histVars>>

\* another process writes to the same disk
DiskShrinks ==
    /\ diskFree > 0
    /\ diskFree' = diskFree - 1
    /\ UNCHANGED <<fmVars, lockVars, smVars, units, unitTmps, bundles,
                   bundleTmps, comb, sending, histVars>>

\* something outside the manager damages one line of a unit file; at most
\* one damaged line is on disk at a time
CorruptLine ==
    /\ \A i \in DOMAIN units : Malformed \notin Range(units[i].content)
    /\ \E i \in DOMAIN units : \E p \in DOMAIN units[i].content :
           units' = [units EXCEPT ![i].content[p] = Malformed]
    /\ UNCHANGED <<fmVars, lockVars, smVars, unitTmps, bundles, bundleTmps,
                   diskFree, comb, sending, histVars>>

\* the process ends (its threads and its memory with it) and a new one
\* constructs the manager the same way on the same directory
Restart ==
    /\ restarts < MaxRestarts
    /\ restarts' = restarts + 1
    /\ Construct(smInit, sharedStop)
    /\ last' = [NoOp EXCEPT !.op = "restart"]
    /\ UNCHANGED <<diskVars, nAdded, bundled, nBundles, usedNames, faults>>

\* ------------------------------------------------ combining (no lock held)
Min(a, b) == IF a < b THEN a ELSE b

\* OptionDataManager._bundle_loop: the loop test, then time.sleep
BundleLoopWake ==
    /\ comb["rotate"].pc = "idle"
    /\ ~stopBundler
    /\ comb' = [comb EXCEPT !["rotate"].pc = "sleep"]
    /\ UNCHANGED <<fmVars, lockVars, smVars, diskVars, sending, histVars>>

\* a rotation that takes the whole listing
ListingUnbounded(c) == SortedUnits(DOMAIN units)

\* the directory listing taken under the lock: combine_and_rotate keeps the
\* first bundle_limit names, combine_temp_files keeps them all
Listing(c) ==
    LET all == SortedUnits(DOMAIN units)
    IN IF c = "rotate" THEN Prefix(all, Min(BundleLimit, Len(all))) ELSE all

\* a manager whose combines join the upload threads they started
BlockedByJoin(snd) == snd # {}

\* whether the manager waits for the upload threads snd: never, the
\* _send_background thread is started as a daemon and not joined
Blocked(snd) == FALSE

CombineList(c) ==
    /\ comb[c].pc = (IF c = "rotate" THEN "sleep" ELSE "idle")
    /\ ~Blocked(sending)
    /\ LET files == Listing(c)
       IN comb' = [comb EXCEPT ![c] =
                     IF files = <<>> THEN IdleCombiner
                     ELSE [IdleCombiner EXCEPT
                              !.pc = "read",
                              !.temp_files = SortedUnits(DOMAIN units),
                              !.files = files]]
    /\ UNCHANGED <<fmVars, lockVars, smVars, diskVars, sending, histVars>>

\* a combine that puts each file's lines in front of the earlier ones
AccumulateInFront(all_entries, lines) == lines \o all_entries

\* a reader that stops at the first line it cannot parse
ParsedLinesUntilBad(lines) ==
    IF \E p \in DOMAIN lines : lines[p] = Malformed
    THEN Prefix(lines, (CHOOSE p \in DOMAIN lines :
                           /\ lines[p] = Malformed
                           /\ \A q \in 1..(p - 1) : lines[q] # Malformed) - 1)
    ELSE lines

\* for line in f: json.loads(line), a line that raises is logged and left out
ParsedLines(lines) == SelectSeq(lines, LAMBDA x : x # Malformed)

\* json.loads of each line appended to all_entries
Accumulate(all_entries, lines) == all_entries \o ParsedLines(lines)

\* a combine that goes on to the unlink although the read raised
SkipAndUnlink(cmb) == [cmb EXCEPT !.pc = "unlink"]

\* the except block around the read: log, go on with the next file
Skip(cmb) == [cmb EXCEPT !.pos = @ + 1]

\* the environment's part of one read: open() raises on a file that is gone,
\* and can raise on one that exists (counted against MaxFaults)
ReadRaises(f) ==
    IF f \notin DOMAIN units THEN {TRUE}
    ELSE IF faults < MaxFaults THEN BOOLEAN
    ELSE {FALSE}

\* _combine_files, one source file: open it and read all its lines; a file
\* whose read raises is skipped
CombineRead(c) ==
    /\ comb[c].pc = "read"
    /\ comb[c].pos <= Len(comb[c].files)
    /\ LET f == comb[c].files[comb[c].pos]
       IN \E raised \in ReadRaises(f) :
          /\ comb' = [comb EXCEPT ![c] =
                        IF raised THEN Skip(@)
                        ELSE [@ EXCEPT !.pc = "unlink",
                                       !.entries =
                                           Accumulate(@, units[f].content),
                                       !.sources = Append(@,
                                           [index |-> f,
                                            content |-> units[f].content])]]
          /\ faults' = IF raised /\ f \in DOMAIN units THEN faults + 1
                       ELSE faults
    /\ UNCHANGED <<fmVars, lockVars, smVars, diskVars, sending, nAdded,
                   bundled, nBundles, usedNames, attempts, last, lastCombine,
                   closes, restarts>>

\* a combine that leaves its source files in place
UnlinkNever(us, f, delete) == us

\* if delete: temp_file.unlink()
Unlink(us, f, delete) == IF delete THEN Remove(us, f) ELSE us

\* _combine_files, one source file after its read; both callers pass
\* delete=True
CombineUnlink(c) ==
    /\ comb[c].pc = "unlink"
    /\ LET f == comb[c].files[comb[c].pos]
       IN IF f \in DOMAIN units
          THEN /\ units' = Unlink(units, f, TRUE)
               /\ diskFree' = Grow(diskFree, Len(units[f].content))
          ELSE UNCHANGED <<units, diskFree>>
    /\ comb' = [comb EXCEPT ![c].pc = "read", ![c].pos = @ + 1]
    /\ UNCHANGED <<fmVars, lockVars, smVars, unitTmps, bundles, bundleTmps,
                   sending, histVars>>

\* a bundle file: its time stamp, its JSON array and (history) the payload
\* and the source units of the combine that wrote it
BundleFile(stamp, array, payload, sources) ==
    [id |-> stamp, content |-> array, payload |-> payload,
     sources |-> sources]

\* the bundle directory after a bundle write that raised before the rename
AfterFailedBundle(bs, tmps, file, stuck) ==
    [bundles |-> bs, bundleTmps |-> IF stuck THEN tmps \cup {file} ELSE tmps]

\* the atomic bundle write of _combine_files; it can raise where the unit
\* writer can ("post": the size stat or the log call after the rename), and
\* every exception makes _combine_files return None
BundleWrite(entries, sources, stamp, bs, tmps, fault, k) ==
    LET f == CASE fault \in {"none", "post"} ->
                    [bundles |-> Append(bs, BundleFile(stamp, entries,
                                                       entries, sources)),
                     bundleTmps |-> tmps]
               [] fault \in {"write", "write_stuck"} ->
                    AfterFailedBundle(bs, tmps,
                        BundleFile(stamp, Written(entries, k), entries,
                                   sources),
                        fault = "write_stuck")
               [] OTHER -> [bundles |-> bs, bundleTmps |-> tmps]
    IN [bundles |-> f.bundles, bundleTmps |-> f.bundleTmps,
        returned |-> fault = "none"]

\* a combine that starts no upload thread
QueuedNever(snd, stamp, returned) == snd

\* if combined_path: threading.Thread(target=self._send_background, ...)
\* .start(), the upload threads snd gain the thread of bundle stamp
Queued(snd, stamp, returned) == IF returned THEN snd \cup {stamp} ELSE snd

\* a combine that goes on to the bundle write with nothing read
NotAllEntriesNever(all_entries) == FALSE

\* if not all_entries: return None
NotAllEntries(all_entries) == all_entries = <<>>

\* _combine_files after the last source file: nothing read -> None; disk
\* check and emergency cleanup; atomic bundle write; the caller starts the
\* _send_background thread when a path came back
CombineWrite(c) ==
    /\ comb[c].pc = "read"
    /\ comb[c].pos > Len(comb[c].files)
    /\ comb' = [comb EXCEPT ![c] = IdleCombiner]
    /\ \E fault \in FaultChoices :
       LET entries == comb[c].entries
           cl == IF ~HasFreeSpace(diskFree)
                 THEN Cleanup(bundles, units, diskFree, fault)
                 ELSE [bundles |-> bundles, units |-> units,
                       free |-> diskFree, raised |-> FALSE]
           stamp == nBundles + 1
       IN IF NotAllEntries(entries)
          THEN /\ fault = "none"
               /\ lastCombine' = "empty"
               /\ UNCHANGED <<diskVars, sending, bundled, nBundles, faults>>
          ELSE IF cl.raised \/ ~HasFreeSpace(cl.free)
          THEN /\ fault \notin WriteFaults
               /\ bundles' = cl.bundles
               /\ units' = cl.units
               /\ diskFree' = cl.free
               /\ lastCombine' = IF cl.raised THEN "raised" ELSE "lowspace"
               /\ faults' = IF fault = "none" THEN faults ELSE faults + 1
               /\ UNCHANGED <<unitTmps, bundleTmps, sending, bundled,
                              nBundles>>
          ELSE \E k \in PartialChoices(entries, fault) :
               LET w == BundleWrite(entries, comb[c].sources, stamp,
                                    cl.bundles, bundleTmps,
                                    WriteFault(fault), k)
                   made == Len(w.bundles) > Len(cl.bundles)
               IN /\ bundles' = w.bundles
                  /\ bundleTmps' = w.bundleTmps
                  /\ units' = cl.units
                  /\ diskFree' = cl.free
                  /\ nBundles' = stamp
                  /\ sending' = Queued(sending, stamp, w.returned)
                  /\ bundled' =
                       IF made
                       THEN bundled \o w.bundles[Len(w.bundles)].content
                       ELSE bundled
                  /\ faults' = IF fault # "none" THEN faults + 1 ELSE faults
                  /\ lastCombine' = IF w.returned THEN "bundle" ELSE "failed"
                  /\ UNCHANGED unitTmps
    /\ UNCHANGED <<fmVars, lockVars, smVars, nAdded, usedNames, attempts,
                   last, closes, restarts>>

\* ------------------------------------------------------------ uploading
RECURSIVE Without(_, _)
Without(bs, id) ==
    IF bs = <<>> THEN <<>>
    ELSE IF Head(bs).id = id THEN Tail(bs)
    ELSE <<Head(bs)>> \o Without(Tail(bs), id)

OnDisk(bs, id) == \E i \in DOMAIN bs : bs[i].id = id

\* an uploader that unlinks the file whatever the server answered
AfterSendUnlinkAlways(bs, id, ok) == Without(bs, id)

\* try_send after the post: filepath.unlink() on status 200, else the file
\* is kept
AfterSend(bs, id, ok) == IF ok THEN Without(bs, id) ELSE bs

\* _send_background -> try_send, the thread of bundle id.  ok: the server
\* answered 200; not ok: another status, a network exception or the
\* timeout.  A file that is gone makes open() raise, which is caught.
\* outcome: "sent" (200, unlinked), "kept", "gone"
Upload(id, ok) ==
    /\ id \in sending
    /\ sending' = sending \ {id}
    /\ IF OnDisk(bundles, id)
       THEN LET b == CHOOSE x \in Range(bundles) : x.id = id
            IN /\ bundles' = AfterSend(bundles, id, ok)
               /\ diskFree' = IF OnDisk(bundles', id) THEN diskFree
                              ELSE Grow(diskFree, Len(b.content))
               /\ last' = [op |-> "upload",
                           outcome |-> IF ok THEN "sent" ELSE "kept"]
       ELSE /\ last' = [op |-> "upload", outcome |-> "gone"]
            /\ UNCHANGED <<bundles, diskFree>>
    /\ UNCHANGED <<fmVars, lockVars, smVars, units, unitTmps, bundleTmps,
                   comb, nAdded, bundled, nBundles, usedNames, attempts,
                   lastCombine, faults, closes, restarts>>

\* ------------------------------------ the same operations, step by step
\* The operations above as the threads run them: each statement that reads
\* or writes _buffer, _temp_file_counter or the unit directory is a step of
\* its own, and a thread runs them between acquiring and releasing _lock.

\* a lock that lets every thread in
LockIgnored(owner, t) == TRUE

\* threading.RLock: acquire succeeds when the lock is free or the caller
\* already holds it
LockFree(owner, t) == owner = "none" \/ owner = t

\* a flush loop that never looks at the stop event
LoopGoesOnAlways(stopped) == TRUE

\* while not self._stop_event.is_set()
LoopGoesOn(stopped) == ~stopped

InCall == {t \in Threads : thr[t].pc # "idle"}

\* a thread calls add_entry or close(), or _flush_loop starts an iteration,
\* and reaches "with self._lock"
Call(t) ==
    /\ thr[t].pc = "idle"
    /\ t \in Producers =>
           nAdded + Cardinality(InCall \cap Producers) < MaxRecords
    /\ t = "flush_loop" => LoopGoesOn(StopIsSet)
    /\ t = "closer" => closes < MaxCloses
    /\ closes' = IF t = "closer" THEN closes + 1 ELSE closes
    /\ thr' = [thr EXCEPT ![t].pc = "wait"]
    /\ UNCHANGED <<fmVars, smVars, diskVars, comb, sending, lockOwner,
                   nAdded, bundled, nBundles, usedNames, attempts, last,
                   lastCombine, faults, restarts>>

\* with self._lock: entered; the section that follows takes at most one
\* index
Acquire(t) ==
    /\ thr[t].pc \in {"wait", "wait_flush"}
    /\ counter < MaxCounter
    /\ LockFree(lockOwner, t)
    /\ lockOwner' = t
    /\ thr' = [thr EXCEPT ![t].pc =
                 IF thr[t].pc = "wait_flush" \/ t = "flush_loop" THEN "flush"
                 ELSE IF t = "closer" THEN "check"
                 ELSE "append"]
    /\ UNCHANGED <<fmVars, smVars, diskVars, comb, sending, histVars>>

\* add_entry: self._buffer.append(entry) and the size test
BufferAppend(t) ==
    /\ thr[t].pc = "append"
    /\ nAdded' = nAdded + 1
    /\ buffer' = Append(buffer, nAdded + 1)
    /\ thr' = [thr EXCEPT ![t].pc =
                 IF Len(buffer') >= MaxBufferSize THEN "flush"
                 ELSE "release"]
    /\ UNCHANGED <<counter, ownStop, sharedStop, smVars, diskVars, comb,
                   sending, lockOwner, bundled, nBundles, usedNames,
                   attempts, last, lastCombine, faults, closes, restarts>>

\* close(): the first with-block; the lock is released at its end
CheckStop(t) ==
    /\ thr[t].pc = "check"
    /\ lockOwner' = IF lockOwner = t THEN "none" ELSE lockOwner
    /\ IF StopIsSet
       THEN /\ thr' = [thr EXCEPT ![t].pc = "idle"]
            /\ last' = [NoOp EXCEPT !.op = "close", !.outcome = "returned"]
            /\ UNCHANGED <<ownStop, smStop>>
       ELSE /\ thr' = [thr EXCEPT ![t].pc = "wait_flush"]
            /\ last' = last
            /\ IF sharedStop
               THEN smStop' = TRUE /\ UNCHANGED ownStop
               ELSE ownStop' = TRUE /\ UNCHANGED smStop
    /\ UNCHANGED <<buffer, counter, sharedStop, smInit, smCallbacks,
                   stopBundler, diskVars, comb, sending, nAdded, bundled,
                   nBundles, usedNames, attempts, lastCombine, faults,
                   closes, restarts>>

\* _flush_locked up to the write: the empty test, the snapshot and the
\* free-space check
Snapshot(t) ==
    /\ thr[t].pc = "flush"
    /\ IF buffer = <<>>
       THEN /\ thr' = [thr EXCEPT ![t].pc = "release"]
            /\ UNCHANGED <<buffer, units, bundles, diskFree, last>>
       ELSE LET entries == buffer
                emptied == <<>>
                c == IF ~HasFreeSpace(diskFree)
                     THEN EmergencyCleanup(bundles, units, diskFree)
                     ELSE [bundles |-> bundles, units |-> units,
                           free |-> diskFree]
            IN /\ units' = c.units
               /\ bundles' = c.bundles
               /\ diskFree' = c.free
               /\ IF HasFreeSpace(c.free)
                  THEN /\ buffer' = emptied
                       /\ thr' = [thr EXCEPT ![t].pc = "load",
                                             ![t].entries = entries]
                       /\ last' = last
                  ELSE /\ buffer' = LowSpaceReturn(entries, emptied)
                       /\ thr' = [thr EXCEPT ![t].pc = "backoff"]
                       /\ last' = [op |-> "flush", outcome |-> "lowspace"]
    /\ UNCHANGED <<counter, ownStop, sharedStop, smVars, unitTmps,
                   bundleTmps, comb, sending, lockOwner, nAdded, bundled,
                   nBundles, usedNames, attempts, lastCombine, faults,
                   closes, restarts>>

\* self._temp_file_counter += 1, the read of the attribute
CounterLoad(t) ==
    /\ thr[t].pc = "load"
    /\ thr' = [thr EXCEPT ![t].pc = "store", ![t].read = counter]
    /\ UNCHANGED <<fmVars, smVars, diskVars, comb, sending, lockOwner,
                   histVars>>

\* self._temp_file_counter += 1, the store of the sum
CounterStore(t) ==
    /\ thr[t].pc = "store"
    /\ counter' = thr[t].read + 1
    /\ thr' = [thr EXCEPT ![t].pc = "index"]
    /\ UNCHANGED <<buffer, ownStop, sharedStop, smVars, diskVars, comb,
                   sending, lockOwner, histVars>>

\* index = self._temp_file_counter
TakeIndex(t) ==
    /\ thr[t].pc = "index"
    /\ thr' = [thr EXCEPT ![t].pc = "write", ![t].index = counter]
    /\ attempts' = Append(attempts, counter)
    /\ UNCHANGED <<fmVars, smVars, diskVars, comb, sending, lockOwner,
                   nAdded, bundled, nBundles, usedNames, last, lastCombine,
                   faults, closes, restarts>>

\* the rest of _write_temp_file_atomic and the except blocks of
\* _flush_locked
WriteUnit(t) ==
    /\ thr[t].pc = "write"
    /\ \E fault \in FaultChoices \cap (WriteFaults \cup {"none"}) :
       \E k \in PartialChoices(thr[t].entries, fault) :
       LET w == WriteTempFileAtomic(thr[t].entries, thr[t].index - 1,
                                    units, unitTmps, fault, k)
       IN /\ units' = w.units
          /\ unitTmps' = w.unitTmps
          /\ buffer' = IF w.raised
                       THEN WriteErrorReturn(thr[t].entries, buffer)
                       ELSE buffer
          /\ usedNames' = IF w.units # units
                          THEN usedNames \cup {<<thr[t].index, restarts>>}
                          ELSE usedNames
          /\ faults' = IF w.raised THEN faults + 1 ELSE faults
          /\ last' = [op |-> "flush",
                      outcome |-> IF w.raised THEN "failed" ELSE "written"]
          /\ thr' = [thr EXCEPT ![t].pc = IF w.raised THEN "backoff"
                                          ELSE "release"]
    /\ UNCHANGED <<counter, ownStop, sharedStop, smVars, bundles,
                   bundleTmps, diskFree, comb, sending, lockOwner, nAdded,
                   bundled, nBundles, attempts, lastCombine, closes,
                   restarts>>

\* time.sleep(self.backoff_seconds) in _flush_locked, on the low-space path
\* and after an OSError of the write, returns
Backoff(t) ==
    /\ thr[t].pc = "backoff"
    /\ thr' = [thr EXCEPT ![t].pc = "release"]
    /\ UNCHANGED <<fmVars, smVars, diskVars, comb, sending, lockOwner,
                   histVars>>

\* the end of the with-block; close() goes on to the join
Release(t) ==
    /\ thr[t].pc = "release"
    /\ lockOwner' = IF lockOwner = t THEN "none" ELSE lockOwner
    /\ thr' = [thr EXCEPT ![t] =
                 [IdleThread EXCEPT !.index = thr[t].index,
                                    !.pc = IF t = "closer" THEN "join"
                                           ELSE "idle"]]
    /\ UNCHANGED <<fmVars, smVars, diskVars, comb, sending, histVars>>

\* close(): self._thread.join(timeout=5) returns, because the flush loop
\* thread has ended or because the five seconds are over; close() returns
Join(t) ==
    /\ thr[t].pc = "join"
    /\ thr' = [thr EXCEPT ![t].pc = "idle"]
    /\ UNCHANGED <<fmVars, smVars, diskVars, comb, sending, lockOwner,
                   histVars>>

\* ---------------------------------------------------------- specification
Combine(c) ==
    \/ CombineList(c)
    \/ CombineRead(c)
    \/ CombineUnlink(c)
    \/ CombineWrite(c)

\* one running manager with one thread calling combine_temp_files, on a
\* disk that other processes fill and free
Next ==
    \/ AddEntry
    \/ FlushTick
    \/ SetDiskFree
    \/ Combine("final")

Spec == Init /\ [][Next]_vars

\* the manager with the upload threads its combines start
NextUpload ==
    \/ AddEntry
    \/ FlushTick
    \/ SetDiskFree
    \/ Combine("final")
    \/ \E id \in sending, ok \in BOOLEAN : Upload(id, ok)

SpecUpload == Init /\ [][NextUpload]_vars

\* the manager and the shutdown path
NextShutdown ==
    \/ AddEntry
    \/ FlushTick
    \/ Close
    \/ ODMClose
    \/ SMInit
    \/ StopAll
    \/ SetDiskFree

SpecShutdown == InitShutdown /\ [][NextShutdown]_vars

\* the manager with the bundle loop of OptionDataManager rotating while
\* another thread calls combine_temp_files; the disk stays roomy
NextRotate ==
    \/ AddEntry
    \/ FlushTick
    \/ Close
    \/ BundleLoopWake
    \/ Combine("rotate")
    \/ Combine("final")

SpecRotate == Init /\ [][NextRotate]_vars

\* the manager across process restarts
NextRestart ==
    \/ AddEntry
    \/ FlushTick
    \/ Combine("final")
    \/ Restart

SpecRestart == Init /\ [][NextRestart]_vars

\* a running manager: producers, the flush loop and the disk; the flush loop
\* thread is scheduled again and again (it wakes from every
\* _stop_event.wait(flush_interval) while the event is not set)
NextRunning ==
    \/ AddEntry
    \/ FlushTick
    \/ SetDiskFree

SpecRunning == Init /\ [][NextRunning]_vars /\ WF_vars(FlushTick)

\* a manager that is restarted on a disk that fills up slowly, no I/O failure
NextCleanup ==
    \/ AddEntry
    \/ FlushTick
    \/ DiskShrinks
    \/ Combine("final")
    \/ Restart

SpecCleanup == InitReliable /\ [][NextCleanup]_vars

\* OptionDataManager.close(): combine_temp_files() after file_manager.close()
\* has returned
FinalCombine ==
    /\ stopBundler
    /\ closes >= 1
    /\ Combine("final")

\* one OptionDataManager: producers, the flush loop, the bundle loop, its
\* close() and the upload threads the combines start
NextManager ==
    \/ AddEntry
    \/ FlushTick
    \/ ODMClose
    \/ BundleLoopWake
    \/ Combine("rotate")
    \/ FinalCombine
    \/ \E id \in sending, ok \in BOOLEAN : Upload(id, ok)

SpecManager == InitReliable /\ [][NextManager]_vars

\* the bundle loop next to the producers and the flush loop, on a disk that
\* other processes fill and free, with no failing file operation
NextBundleLoop ==
    \/ AddEntry
    \/ FlushTick
    \/ SetDiskFree
    \/ BundleLoopWake
    \/ Combine("rotate")

SpecBundleLoop == InitReliable /\ [][NextBundleLoop]_vars

\* one manager and one thread calling combine_temp_files on unit files that
\* can get damaged, with no failing file operation
NextCorrupt ==
    \/ AddEntry
    \/ FlushTick
    \/ CorruptLine
    \/ Combine("final")

SpecCorrupt == InitReliable /\ [][NextCorrupt]_vars

\* the shutdown registry next to one manager, with no failing file operation
NextRegister ==
    \/ AddEntry
    \/ SMInit
    \/ \E cb \in {"other", NotCallable} : Register(cb)
    \/ StopAll

SpecRegister == InitReliable /\ [][NextRegister]_vars

\* the manager's operations step by step, run by several threads
NextLock ==
    \E t \in Threads :
        \/ Call(t)
        \/ Acquire(t)
        \/ BufferAppend(t)
        \/ CheckStop(t)
        \/ Snapshot(t)
        \/ CounterLoad(t)
        \/ CounterStore(t)
        \/ TakeIndex(t)
        \/ WriteUnit(t)
        \/ Backoff(t)
        \/ Release(t)
        \/ Join(t)

SpecLock == Init /\ [][NextLock]_vars

\* what a thread inside a call does next without needing the lock
Proceed(t) ==
    \/ BufferAppend(t)
    \/ CheckStop(t)
    \/ Snapshot(t)
    \/ CounterLoad(t)
    \/ CounterStore(t)
    \/ TakeIndex(t)
    \/ WriteUnit(t)
    \/ Backoff(t)
    \/ Release(t)
    \/ Join(t)

\* one producer, the flush loop and the thread that calls close(), under a
\* scheduler: a thread that can go on does, every sleep and join ends, and
\* a thread waiting for the lock gets it when the lock is free again and
\* again (the flush loop leaves it free for flush_interval between two
\* iterations)
Scheduled == {"producer1", "flush_loop", "closer"}

NextLockFair ==
    \E t \in Scheduled :
        \/ Call(t)
        \/ Acquire(t)
        \/ Proceed(t)

SpecLockFair ==
    /\ Init
    /\ [][NextLockFair]_vars
    /\ \A t \in Scheduled : WF_vars(Proceed(t)) /\ SF_vars(Acquire(t))

TypeOK ==
    /\ buffer \in Seq(1..MaxRecords)
    /\ counter \in 0..MaxCounter
    /\ diskFree \in 0..DiskSize
    /\ DOMAIN units \subseteq 1..MaxCounter

\* ------------------------------------------------------------- properties
\* the batch _flush_locked snapshots in this step (after add_entry's append)
Batch == IF nAdded' # nAdded THEN Append(buffer, nAdded') ELSE buffer

\* this step ran _flush_locked
FlushRan ==
    \/ AddEntry /\ Len(Batch) >= MaxBufferSize
    \/ FlushTick
    \/ (Close \/ ODMClose) /\ ~StopIsSet
    \/ StopAll /\ last'.op = "close" /\ last'.outcome # "returned"

\* free space is below the threshold and the emergency cleanup cannot lift it
StaysLow ==
    /\ ~HasFreeSpace(diskFree)
    /\ ~HasFreeSpace(EmergencyCleanup(bundles, units, diskFree).free)

\* C2: when the unit write raises during a flush, the buffer afterwards is
\* exactly the batch the flush took, in order, and no Numbered Unit exists
\* under the final name of the index the attempt took.
C2Claim ==
    [][(FlushRan /\ last'.outcome = "failed")
         => (buffer' = Batch /\ counter' \notin DOMAIN units')]_vars

\* C3: a flush of a non-empty buffer that finds free space below the
\* threshold before and after the emergency cleanup takes no index, creates
\* no Numbered Unit and no temp file, and leaves the buffer holding exactly
\* the batch it took, so the next flush retries the same records.
C3LowSpaceBackpressure ==
    [][(FlushRan /\ Batch # <<>> /\ StaysLow)
         => /\ buffer' = Batch
            /\ Len(buffer') >= Len(buffer)
            /\ counter' = counter
            /\ attempts' = attempts
            /\ DOMAIN units' \subseteq DOMAIN units
            /\ unitTmps' = unitTmps
            /\ last'.outcome = "lowspace"]_vars

C3Witness ==
    /\ last.outcome = "lowspace"
    /\ buffer # <<>>
    /\ ~HasFreeSpace(diskFree)

\* the lines of the source units of one combine, in filename order
SourceLines(srcs) ==
    LET order == SortedUnits({srcs[j].index : j \in DOMAIN srcs})
    IN ParsedLines(Flatten([j \in DOMAIN order |->
                  (CHOOSE x \in Range(srcs) : x.index = order[j]).content]))

\* the records of the units on disk, read in ascending index order
UnitLines ==
    LET order == OldestFirst(DOMAIN units)
    IN Flatten([j \in DOMAIN order |-> units[order[j]].content])

\* C4: every file under a final Numbered Unit name holds the whole batch its
\* writer was given, and every file under a final Bundle name holds the
\* whole payload of the combine that wrote it; shorter content exists under
\* temp names only.
C4FinalNamesComplete ==
    /\ \A i \in DOMAIN units : units[i].content = units[i].batch
    /\ \A i \in DOMAIN bundles : bundles[i].content = bundles[i].payload

C4Witness ==
    /\ \E i \in DOMAIN unitTmps :
           Len(unitTmps[i].content) < Len(unitTmps[i].batch)
    /\ DOMAIN units # {}
    /\ last.outcome = "failed"

C6Claim ==
    /\ Increasing(UnitLines \o buffer)
    /\ \A i \in DOMAIN bundles : Increasing(bundles[i].content)

\* close() was the last operation on the manager and its flush did not
\* fail, and a combine that made a bundle has since left no unit behind
Finished ==
    /\ last.op = "close"
    /\ last.outcome \in {"written", "empty"}
    /\ buffer = <<>>
    /\ DOMAIN units = {}
    /\ \A c \in Combiners : comb[c].pc \in {"idle", "sleep"}
    /\ lastCombine = "bundle"

\* C1: after add_entry calls interleaved with flushes, rotations and failed
\* writes and ended by close() and combine_temp_files(), with the last
\* writes successful, every added record is in the bundles ever created
\* exactly once.
C1Claim ==
    Finished => \A r \in 1..nAdded : Occurrences(bundled, r) = 1

\* C7: with producers, the flush loop and close() flushing concurrently,
\* the Counter changes only in a step of the thread that holds the lock and
\* only by one; every index an attempt takes is larger than every index
\* taken before it, whether the attempt then succeeds or fails; and a
\* Numbered Unit that exists keeps its content.
C7LockedCounter ==
    [][/\ counter' # counter =>
             /\ lockOwner # "none"
             /\ thr[lockOwner].pc = "store"
             /\ counter' = counter + 1
       /\ attempts' # attempts =>
             \A j \in DOMAIN attempts :
                 attempts[j] < attempts'[Len(attempts')]
       /\ \A i \in DOMAIN units :
             i \in DOMAIN units' => units'[i] = units[i]]_vars

C7Witness ==
    \E t1, t2, t3 \in Threads :
        /\ t1 # t2 /\ t1 # t3
        /\ thr[t1].pc = "write"
        /\ thr[t2].pc \in {"wait", "wait_flush"}
        /\ thr[t3].index # 0
        /\ thr[t1].index > thr[t3].index
        /\ last.outcome = "failed"

\* a flush of this process took a new index in this step
TookIndex == counter' # counter /\ restarts' = restarts

\* C8 as stated: constructed on a directory, the Manager seeds the Counter
\* with the largest unit index on disk, and a write of a restarted Manager
\* never takes a name that exists on disk nor a name that a unit had under
\* an earlier process.
C8Claim ==
    [][/\ restarts' # restarts => counter' = InitTempCounter(units')
       /\ TookIndex =>
             /\ counter' \notin DOMAIN units
             /\ \A n \in usedNames : n[2] < restarts => n[1] # counter']_vars

\* C8, amended: constructed on a directory, the Manager seeds the Counter
\* with the largest unit index on disk (0 when there is none), and no write
\* of it takes a name that exists on disk at that time; names of units that
\* were deleted before the restart can be taken again.
C8NoCollision ==
    [][/\ restarts' # restarts =>
             /\ \A i \in DOMAIN units' : i <= counter'
             /\ counter' = 0 \/ counter' \in DOMAIN units'
       /\ TookIndex => counter' \notin DOMAIN units]_vars

\* a unit of the first process and a unit written after a restart, under
\* different names, are on disk together
C8Witness ==
    /\ restarts >= 1
    /\ last.outcome = "written"
    /\ \E i, j \in DOMAIN units :
          /\ <<i, 0>> \in usedNames
          /\ \A e \in 1..restarts : <<i, e>> \notin usedNames
          /\ <<j, restarts>> \in usedNames
          /\ \A e \in 0..(restarts - 1) : <<j, e>> \notin usedNames

\* this step is the first call of close() on the manager
FirstClose == closes = 0 /\ closes' = 1

\* the buffer of before the step is empty now and is the unit just written
Flushed ==
    /\ buffer' = <<>>
    /\ buffer # <<>> =>
          /\ counter' \in DOMAIN units'
          /\ units'[counter'].content = buffer

\* C9: when the first call of close() returns and no unit write failed in
\* it, the Stop Signal is set, the buffer is empty and the records that were
\* buffered at the call are in a Numbered Unit.
C9Claim ==
    [][(FirstClose /\ last'.outcome \notin {"failed", "lowspace"})
         => (StopIsSet' /\ Flushed)]_vars

\* C10: when stop_all() returns and no unit write failed in it, the buffer
\* of the manager is empty and its records are in a Numbered Unit, whatever
\* stop event the manager was constructed with.
C10Claim ==
    [][(StopAll /\ last'.outcome \notin {"failed", "lowspace"})
         => Flushed]_vars

\* this step is a call of close() after the first one
LaterClose == closes >= 1 /\ closes' = closes + 1

\* C11: a call of close() after the first one writes nothing and leaves the
\* buffer, the Counter and every file as they were.
C11SecondCloseNoOp ==
    [][LaterClose =>
          /\ UNCHANGED <<buffer, counter, units, unitTmps, bundles,
                         bundleTmps, attempts>>
          /\ last'.outcome = "returned"]_vars

\* close() was called twice and the second call found records that arrived
\* after the first one
C11Witness ==
    /\ closes = 2
    /\ last = [op |-> "close", outcome |-> "returned"]
    /\ buffer # <<>>
    /\ DOMAIN units # {}
    /\ ~sharedStop

\* C12: when _combine_files returns no bundle because free space stays low
\* after the cleanup or because the bundle write raised, every unit it read
\* is still on disk with its records.
C12Claim ==
    [][\A c \in Combiners :
          (CombineWrite(c) /\ lastCombine' \in {"lowspace", "failed"})
             => \A j \in DOMAIN comb[c].sources :
                   LET src == comb[c].sources[j]
                   IN /\ src.index \in DOMAIN units'
                      /\ units'[src.index].content = src.content]_vars

\* the units that leave the disk in this step
Deleted == DOMAIN units \ DOMAIN units'

\* combiner c unlinks unit i in this step, having read all its lines into
\* the payload it is collecting
UnlinkedAfterRead(c, i) ==
    /\ CombineUnlink(c)
    /\ comb[c].files[comb[c].pos] = i
    /\ comb[c].sources # <<>>
    /\ LET src == comb[c].sources[Len(comb[c].sources)]
           n == Len(comb[c].entries)
       IN /\ src = [index |-> i, content |-> units[i].content]
          /\ n >= Len(src.content)
          /\ SubSeq(comb[c].entries, n - Len(src.content) + 1, n)
                = src.content

\* this step ran _emergency_cleanup: a flush or the end of a combine that
\* found free space below the threshold
CleanupRan ==
    /\ ~HasFreeSpace(diskFree)
    /\ \/ FlushRan /\ Batch # <<>>
       \/ \E c \in Combiners : CombineWrite(c) /\ comb[c].entries # <<>>

\* C13 as stated: whichever operation deletes it, a Numbered Unit leaves the
\* disk only in the unlink of a combine that has read its whole content into
\* its payload.
C13Claim ==
    [][\A i \in Deleted : \E c \in Combiners : UnlinkedAfterRead(c, i)]_vars

\* C13, amended: a combine deletes a Numbered Unit only after it has read
\* its whole content into its payload, and never one whose read raised; the
\* only other deletion of a unit is the emergency cleanup, which removes
\* units unread.
C13CombineDeletesAfterRead ==
    [][\A i \in Deleted :
          \/ \E c \in Combiners : UnlinkedAfterRead(c, i)
          \/ CleanupRan]_vars

\* a combine has skipped a unit whose read raised, the unit is still on
\* disk, and the combine has deleted another one it read
C13Witness ==
    \E c \in Combiners :
        /\ comb[c].pc = "read"
        /\ comb[c].sources # <<>>
        /\ \E p \in 1..(comb[c].pos - 1) :
              /\ comb[c].files[p] \in DOMAIN units
              /\ \A j \in DOMAIN comb[c].sources :
                    comb[c].sources[j].index # comb[c].files[p]
        /\ \E j \in DOMAIN comb[c].sources :
              comb[c].sources[j].index \notin DOMAIN units

\* C14: an upload thread removes its Bundle exactly when the server answered
\* 200; after any other outcome the bundles on disk are as they were, the
\* Bundle under its final name included.
C14DeleteIffSent ==
    [][\A id \in sending : \A ok \in BOOLEAN :
          Upload(id, ok) =>
             /\ (OnDisk(bundles, id) /\ ~OnDisk(bundles', id))
                   <=> (ok /\ OnDisk(bundles, id))
             /\ ~ok => bundles' = bundles]_vars

\* an upload failed and its Bundle is on disk, after an earlier upload
\* succeeded and removed its own
C14Witness ==
    /\ last = [op |-> "upload", outcome |-> "kept"]
    /\ \E i \in DOMAIN bundles : bundles[i].id \notin sending
    /\ \E id \in 1..nBundles : id \notin sending /\ ~OnDisk(bundles, id)
    /\ faults = 0
    /\ bundled # <<>>

\* C15: while an upload is in flight it holds no manager lock, and every
\* manager operation (add_entry, the timer flush, close(), the start and
\* every step of combine_and_rotate and combine_temp_files) can take its
\* step whenever its own conditions hold, whatever uploads are unfinished
Running(c) == comb[c].pc \in {"read", "unlink"}
Added == nAdded' = nAdded + 1
Retained(r) ==
    \/ r \in Range(buffer')
    \/ \E i \in DOMAIN units' : r \in Range(units'[i].content)
C16AddEntryReturns ==
    [][Added =>
          /\ last'.op = "add"
          /\ last'.outcome \in {NoOp.outcome, "written", "lowspace", "failed"}
          /\ Retained(nAdded')]_vars

\* an add whose overflow flush found the disk low, after an earlier add
\* whose write had failed: all three records are still buffered
C16Witness ==
    /\ last = [op |-> "add", outcome |-> "lowspace"]
    /\ faults = 1
    /\ buffer = <<1, 2, 3>>
    /\ DOMAIN units = {}

\* C17: from the empty state of a running manager, with writes succeeding
\* and no flush of a partial buffer in between, the k records added so far
\* are in k \div N full units 1, 2, ... in add order (N = max_buffer_size),
\* each written by the add that filled the buffer, with the other k % N
\* records buffered; a timer tick or close() that follows writes exactly
\* the buffered records as the next unit
FullUnit(i) == [j \in 1..MaxBufferSize |-> (i - 1) * MaxBufferSize + j]
OnlyAdded ==
    /\ ~StopIsSet
    /\ closes = 0
    /\ counter = nAdded \div MaxBufferSize
    /\ DOMAIN units = 1..counter
    /\ \A i \in DOMAIN units : units[i].content = FullUnit(i)
    /\ buffer = [j \in 1..(nAdded % MaxBufferSize) |->
                    counter * MaxBufferSize + j]
WriteSucceeds == HasFreeSpace(diskFree) /\ faults' = faults
C17AddThenFlush ==
    [][(OnlyAdded /\ WriteSucceeds) =>
          /\ AddEntry => OnlyAdded'
          /\ ((FlushTick \/ Close) /\ buffer # <<>>) =>
                /\ counter' = counter + 1
                /\ units' = Put(units, counter', File(buffer, buffer))
                /\ buffer' = <<>>]_vars

\* N = 2, k = 3: unit 1 holds records 1 and 2, close() wrote record 3 as
\* unit 2
C17Witness ==
    /\ last = [op |-> "close", outcome |-> "written"]
    /\ DOMAIN units = {1, 2}
    /\ units[1].content = <<1, 2>>
    /\ units[2].content = <<3>>
    /\ buffer = <<>>
    /\ attempts = <<1, 2>>
    /\ faults = 0

\* C18: a combine that read every unit it listed, with enough disk space and
\* a bundle write that succeeds, adds exactly one Bundle; its array is the
\* units' lines in unit order and line order, n1 + ... + nk elements in all,
\* and none of the listed unit files exists afterwards
RECURSIVE TotalLines(_)
TotalLines(srcs) ==
    IF srcs = <<>> THEN 0
    ELSE Len(Head(srcs).content) + TotalLines(Tail(srcs))
ReadAll(c) ==
    /\ Len(comb[c].sources) = Len(comb[c].files)
    /\ \A j \in DOMAIN comb[c].files :
           comb[c].sources[j].index = comb[c].files[j]
ListedNothing(c) == CombineList(c) /\ Listing(c) = <<>>
ReadNothing(c) == CombineWrite(c) /\ comb[c].entries = <<>>
C19NoEmptyBundle ==
    /\ [](\A i \in DOMAIN bundles : bundles[i].content # <<>>)
    /\ [][\A c \in Combiners :
             (ListedNothing(c) \/ ReadNothing(c)) =>
                /\ UNCHANGED <<bundles, bundleTmps, unitTmps, sending,
                               nBundles, bundled>>
                /\ lastCombine' \in {lastCombine, "empty"}
                /\ lastCombine' # "bundle" \/ ListedNothing(c)
                /\ comb'[c] = IdleCombiner]_vars

\* a combine whose only listed unit could not be read returned nothing: the
\* unit is still on disk, and there is no bundle, no temp file, no upload
C19Witness ==
    /\ lastCombine = "empty"
    /\ faults = 1
    /\ DOMAIN units # {}
    /\ bundles = <<>>
    /\ bundleTmps = {}
    /\ sending = {}
    /\ nBundles = 0
    /\ \A c \in Combiners : comb[c].pc = "idle"

\* the n names of S that come first in name order
LowestNames(S, n) ==
    {i \in S : Cardinality({j \in S : NameLess(UnitName(j), UnitName(i))}) < n}

\* a rotation takes the min(limit, k) lowest names of the k units on disk
RotateListsLowest ==
    CombineList("rotate") =>
        LET picked == comb'["rotate"].files
        IN /\ Range(picked) = LowestNames(DOMAIN units, BundleLimit)
           /\ Len(picked) = Min(BundleLimit, Cardinality(DOMAIN units))

\* a rotation reads no other unit than those it took
RotateReadsListed ==
    Combine("rotate") =>
        \A j \in DOMAIN comb'["rotate"].sources :
            comb'["rotate"].sources[j].index \in Range(comb'["rotate"].files)

\* the units a rotation step leaves on disk are unchanged
RotateKeepsContent ==
    Combine("rotate") =>
        \A i \in DOMAIN units \cap DOMAIN units' : units'[i] = units[i]

\* the step of a rotation in which _combine_files finds the free space low
\* and runs the emergency cleanup
RotateCleanup ==
    /\ CombineWrite("rotate")
    /\ comb["rotate"].entries # <<>>
    /\ ~HasFreeSpace(diskFree)

\* C20 as stated: combine_and_rotate takes the min(limit, k) lowest names,
\* reads and deletes only those, and leaves every other unit on disk as it
\* was
C20Claim ==
    [][/\ RotateListsLowest
       /\ RotateReadsListed
       /\ RotateKeepsContent
       /\ Combine("rotate") => Deleted \subseteq Range(comb["rotate"].files)]_vars

\* C20: combine_and_rotate takes the min(limit, k) lowest names, reads only
\* those and unlinks only those after their read; every other unit stays on
\* disk as it was, unless the rotation finds the free space low before the
\* bundle write and its emergency cleanup deletes units
C20RotateTakesLowest ==
    [][/\ RotateListsLowest
       /\ RotateReadsListed
       /\ RotateKeepsContent
       /\ (Combine("rotate") /\ ~RotateCleanup)
             => Deleted \subseteq Range(comb["rotate"].files)]_vars

\* a rotation that listed units 1 and 2 took unit 1 only, has read and
\* unlinked it, and unit 2 is on disk as it was written
C20Witness ==
    /\ comb["rotate"].pc = "read"
    /\ comb["rotate"].temp_files = <<1, 2>>
    /\ comb["rotate"].files = <<1>>
    /\ comb["rotate"].pos = 2
    /\ comb["rotate"].sources = <<[index |-> 1, content |-> <<1, 2>>]>>
    /\ DOMAIN units = {2}
    /\ units[2] = File(<<3>>, <<3>>)

\* the lines of a unit that parse, in line order
RECURSIVE WellFormed(_)
WellFormed(lines) ==
    IF lines = <<>> THEN <<>>
    ELSE (IF Head(lines) = Malformed THEN <<>> ELSE <<Head(lines)>>)
         \o WellFormed(Tail(lines))

\* C21: a line that fails to parse is left out and the combine goes on: the
\* read of a unit adds every well-formed line of it to the payload, in
\* order, and the Bundle written holds the well-formed lines of all units
\* read, in unit order and line order
C21MalformedLineSkipped ==
    [][\A c \in Combiners :
          /\ (CombineRead(c) /\ comb'[c].pc = "unlink") =>
                LET f == comb[c].files[comb[c].pos]
                IN comb'[c].entries =
                      comb[c].entries \o WellFormed(units[f].content)
          /\ (CombineWrite(c) /\ lastCombine' = "bundle") =>
                LET srcs == comb[c].sources
                IN bundles'[Len(bundles')].content =
                      WellFormed(Flatten([j \in DOMAIN srcs |->
                                             srcs[j].content]))]_vars

\* a bundle made from unit 1, whose first line was damaged, and unit 2: it
\* holds the second record of unit 1 and the record of unit 2
C21Witness ==
    /\ lastCombine = "bundle"
    /\ Len(bundles) = 1
    /\ Len(bundles[1].sources) = 2
    /\ bundles[1].sources[1] = [index |-> 1, content |-> <<Malformed, 2>>]
    /\ bundles[1].sources[2] = [index |-> 2, content |-> <<3>>]
    /\ bundles[1].content = <<2, 3>>

\* this step ran _emergency_cleanup from a flush / from the combine c
FlushCleanup == FlushRan /\ Batch # <<>> /\ ~HasFreeSpace(diskFree)
CombineCleanup(c) ==
    /\ CombineWrite(c)
    /\ comb[c].entries # <<>>
    /\ ~HasFreeSpace(diskFree)

\* C22: whatever stat or unlink call fails in it, _emergency_cleanup returns
\* to its caller, which goes on with its second free-space check: a flush
\* then attempts the write when space is sufficient and hands the batch back
\* when it is not, a combine goes on to the bundle write or gives up for
\* low space; no exception leaves the flush or the combine
C22CleanupNeverRaises ==
    [][/\ FlushCleanup =>
             /\ last'.outcome \in {"lowspace", "written", "failed"}
             /\ IF HasFreeSpace(diskFree')
                THEN counter' = counter + 1 /\ last'.outcome # "lowspace"
                ELSE buffer' = Batch /\ last'.outcome = "lowspace"
       /\ \A c \in Combiners : CombineCleanup(c) =>
             /\ lastCombine' \in {"lowspace", "bundle", "failed"}
             /\ IF HasFreeSpace(diskFree')
                THEN nBundles' = nBundles + 1 /\ lastCombine' # "lowspace"
                ELSE lastCombine' = "lowspace" /\ nBundles' = nBundles]_vars

\* a flush handed its batch back for low space although a unit is still on
\* disk: the cleanup it ran was cut short by an exception
C22Witness ==
    /\ last.outcome = "lowspace"
    /\ ~HasFreeSpace(diskFree)
    /\ DOMAIN units # {}
    /\ buffer # <<>>
    /\ faults = 1

\* C23: one stop_all calls every registered callback once, in registration
\* order, whether or not an earlier one raised; with the manager's close
\* registered after the logger's exit callback, which raises, the step is
\* one call of close()
C23EveryCallbackInvoked ==
    [][StopAll =>
          /\ Invoked(smCallbacks) = smCallbacks
          /\ ("manager" \in Range(smCallbacks)) =>
                /\ \E i \in DOMAIN smCallbacks : Raises(smCallbacks[i])
                /\ closes' = closes + 1
                /\ last'.op = "close"]_vars

\* the only close() so far came from stop_all on a shared stop event: it
\* found the event set, after the logger's callback had raised
C23Witness ==
    /\ closes = 1
    /\ last = [op |-> "close", outcome |-> "returned"]
    /\ sharedStop
    /\ smStop
    /\ smCallbacks = <<"logger", "manager">>

\* C24: register raises on a non-callable and leaves the registry as it was,
\* so no registered callback is ever a non-callable
C24RegisterFailsFast ==
    /\ [](NotCallable \notin Range(smCallbacks))
    /\ [][Register(NotCallable) =>
             /\ smCallbacks' = smCallbacks
             /\ last'.outcome = "raised"]_vars

\* a register call was refused after another callback had been accepted
\* behind the logger's and the manager's
C24Witness ==
    /\ last = [op |-> "register", outcome |-> "raised"]
    /\ smCallbacks = <<"logger", "manager", "other">>

\* C25: once close() has returned, add_entry only appends the record to the
\* buffer, and no Numbered Unit is created any more
Stopped == closes >= 1 /\ StopIsSet
C25Claim ==
    [][Stopped =>
          /\ Added => buffer' = Append(buffer, nAdded')
          /\ DOMAIN units' \subseteq DOMAIN units]_vars

\* C26: no thread holds _lock while it sleeps in the backoff of
\* _flush_locked
C26Claim ==
    \A t \in Threads : thr[t].pc = "backoff" => lockOwner # t

Removable == WriteFaults \ {"write_stuck"}

BundlesToDelete(bs, free) ==
    LET ok(n) == HasFreeSpace(free + TotalLines(Prefix(bs, n)))
    IN IF \E n \in 1..Len(bs) : ok(n)
       THEN CHOOSE n \in 1..Len(bs) : ok(n) /\ \A m \in 1..(n - 1) : ~ok(m)
       ELSE Len(bs)

\* the n oldest of the unit indices D
Oldest(D, n) == {i \in D : Cardinality({j \in D : j < i}) < n}

RECURSIVE LinesOf(_, _)
LinesOf(us, S) ==
    IF S = {} THEN 0
    ELSE LET i == CHOOSE x \in S : TRUE
         IN Len(us[i].content) + LinesOf(us, S \ {i})

UnitsToDelete(us, free) ==
    LET D == DOMAIN us
        ok(n) == HasFreeSpace(free + LinesOf(us, Oldest(D, n)))
    IN IF \E n \in 1..Cardinality(D) : ok(n)
       THEN CHOOSE n \in 1..Cardinality(D) :
                ok(n) /\ \A m \in 1..(n - 1) : ~ok(m)
       ELSE Cardinality(D)

\* the bundles and the unit indices an emergency cleanup has to leave
Kept(bs, us, free) ==
    LET nb == BundlesToDelete(bs, free)
        fb == free + TotalLines(Prefix(bs, nb))
    IN IF HasFreeSpace(fb)
       THEN [bundles |-> SubSeq(bs, nb + 1, Len(bs)), units |-> DOMAIN us]
       ELSE [bundles |-> <<>>,
             units |-> DOMAIN us \ Oldest(DOMAIN us, UnitsToDelete(us, fb))]

\* C28: an emergency cleanup in which nothing raises deletes bundles oldest
\* first and stops at the first deletion after which free space suffices;
\* it deletes units only when all bundles are gone and space is still low,
\* oldest first and with the same stop
C28CleanupOrder ==
    [][faults' = faults =>
          /\ FlushCleanup =>
                LET e == Kept(bundles, units, diskFree)
                    new == IF counter' # counter THEN {counter'} ELSE {}
                IN /\ bundles' = e.bundles
                   /\ DOMAIN units' \ new = e.units
          /\ \A c \in Combiners : CombineCleanup(c) =>
                LET e == Kept(bundles, units, diskFree)
                IN /\ Len(bundles') \in {Len(e.bundles), Len(e.bundles) + 1}
                   /\ Prefix(bundles', Len(e.bundles)) = e.bundles
                   /\ DOMAIN units' = e.units]_vars

\* after a restart the disk held one bundle and one unit when a flush found
\* space low: the cleanup deleted the bundle, which was enough, kept the unit
\* and the flush wrote the next unit
C28Witness ==
    /\ last = [op |-> "tick", outcome |-> "written"]
    /\ nBundles = 1
    /\ bundles = <<>>
    /\ restarts = 1
    /\ DOMAIN units = {1, 2}
    /\ units[1].content = <<2>>
    /\ units[2].content = <<3>>

\* the unit the final combine is about to read
FinalFile == comb["final"].files[comb["final"].pos]

\* the units the final combine did not list are on disk after the step as
\* they were before it
OthersUntouched ==
    \A i \in DOMAIN units \ Range(comb["final"].temp_files) :
        i \in DOMAIN units' /\ units'[i] = units[i]

\* combine_temp_files takes the whole listing
FinalListsAll ==
    CombineList("final") =>
        \/ /\ units = NoFiles
           /\ comb'["final"].pc = "idle"
        \/ /\ comb'["final"].files = SortedUnits(DOMAIN units)
           /\ comb'["final"].temp_files = comb'["final"].files

\* a listed unit that is on disk and whose read does not raise goes into the
\* payload whole
FinalReadsListed ==
    (CombineRead("final") /\ FinalFile \in DOMAIN units /\ faults' = faults)
        => comb'["final"].sources =
               Append(comb["final"].sources,
                      [index |-> FinalFile, content |-> units[FinalFile].content])

\* combine_temp_files returns with a bundle created
FinalBundle == CombineWrite("final") /\ lastCombine' = "bundle"

\* the bundle holds the lines of the units read, in order, and its upload
\* thread is started; none of the units read is on disk
FinalBundleMade ==
    FinalBundle =>
        LET srcs == comb["final"].sources
            b == bundles'[Len(bundles')]
        IN /\ b.id = nBundles'
           /\ b.sources = srcs
           /\ b.content = SourceLines(srcs)
           /\ b.id \in sending'
           /\ \A j \in DOMAIN srcs : srcs[j].index \notin DOMAIN units'

C30StopOneWay ==
    [][/\ StopIsSet => StopIsSet'
       /\ ownStop => ownStop'
       /\ smStop => smStop']_vars

\* the manager shares the ShutdownManager's event, the event was set by the
\* first of two closing calls, and a record added afterwards finds it set
C30Witness ==
    /\ sharedStop
    /\ StopIsSet
    /\ closes = 2
    /\ last.op = "add"

\* C31 as stated: once OptionDataManager.close() has set the stop signals
\* the flush loop starts no further flush and the bundle loop starts no
\* further combine_and_rotate
C31Claim ==
    [][stopBundler => ~FlushTick /\ ~CombineList("rotate")]_vars

\* record n is in a unit file on disk
InUnit(n) == \E i \in DOMAIN units : n \in Range(units[i].content)

\* C32: in a running manager whose disk space is sufficient from some time
\* on (failing writes are bounded by MaxFaults), every buffered record gets
\* into a Numbered Unit, also one that a failed flush put back into the
\* buffer; the obligation ends where the model's cap on the counter stops
\* the flushes
C32EveryRecordFlushed ==
    <>[]HasFreeSpace(diskFree) =>
        \A n \in 1..MaxRecords :
            (n \in Range(buffer) /\ counter < MaxCounter)
                ~> (InUnit(n) \/ counter = MaxCounter)

\* the first flush of record 1 raised and put it back, the next tick wrote
\* it as unit 2
C32Witness ==
    /\ faults = 1
    /\ attempts = <<1, 2>>
    /\ last = [op |-> "tick", outcome |-> "written"]
    /\ buffer = <<>>
    /\ DOMAIN units = {2}
    /\ units[2].content = <<1>>
    /\ diskFree = DiskSize

\* the flush loop thread is outside an iteration, or the model's cap on the
\* counter has stopped the threads
LoopEnded == thr["flush_loop"].pc = "idle" \/ counter = MaxCounter

\* close() has returned, or the cap has stopped the threads
CloseReturned == thr["closer"].pc = "idle" \/ counter = MaxCounter

\* C33: once the stop signal is set the flush loop starts no new iteration
\* and the thread ends after the iteration it is in; close() holds no lock
\* while it joins the thread, and every call of close() returns
C33ShutdownTerminates ==
    /\ [][StopIsSet => ~Call("flush_loop")]_vars
    /\ [](thr["closer"].pc = "join" => lockOwner # "closer")
    /\ [](StopIsSet => <>[]LoopEnded)
    /\ (thr["closer"].pc # "idle") ~> CloseReturned

\* close() has set the stop signal and waits for the lock for its final
\* flush while the flush loop is inside an iteration, holding the lock
C33Witness ==
    /\ StopIsSet
    /\ thr["closer"].pc = "wait_flush"
    /\ lockOwner = "flush_loop"
    /\ thr["flush_loop"].pc = "write"
    /\ counter < MaxCounter

\* C34 as stated, the part before the final combine: with the write
\* succeeding and enough disk space, file_manager.close() inside
\* OptionDataManager.close() has flushed the buffer when it returns, so that
\* combine_temp_files() finds the records buffered at close in a unit
C34Claim ==
    [][(ODMClose /\ buffer # <<>> /\ HasFreeSpace(diskFree)
            /\ faults' = faults)
          => /\ buffer' = <<>>
             /\ \A n \in Range(buffer) : InUnit(n)']_vars

\* C35 as stated: with a rotation of the bundle loop and the
\* combine_temp_files of close() overlapping, the records of a unit are put
\* into at most one Bundle; no failing file operation, so that every record
\* is in one unit only
C35Claim ==
    \A r \in 1..MaxRecords : Occurrences(bundled, r) <= 1

\* C36 as stated: init() keeps the callbacks registered before it, so the
\* manager's close(), registered at construction and never removed, is among
\* the callbacks every stop_all invokes
C36Claim ==
    [][/\ SMInit => smCallbacks' = smCallbacks
       /\ StopAll => "manager" \in Range(Invoked(smCallbacks))]_vars

\* C37 as stated: when a flush hands its batch back to the buffer, no unit
\* file under a final name holds that batch
C37Claim ==
    [][(FlushRan /\ Batch # <<>> /\ last'.outcome \in {"failed", "lowspace"})
          => /\ buffer' = Batch
             /\ ~\E i \in DOMAIN units' : units'[i].content = Batch]_vars

\* C38 as stated: stop_all sets the process-wide stop event before it calls
\* the callbacks, so the event is set when they run
C38Claim ==
    [][StopAll => smStop']_vars

\* C38: when ShutdownManager.init() has made the process-wide stop event,
\* stop_all sets it before it calls the first callback: the event is set
\* when stop_all returns, and a close() registered by a manager that shares
\* the event finds it set and returns without flushing.  Without init()
\* there is no event and the callbacks run with none set.
C38EventSetBeforeCallbacks ==
    [][StopAll =>
          /\ smInit => smStop'
          /\ ~smInit => smStop' = smStop
          /\ (smInit /\ sharedStop /\ "manager" \in Range(smCallbacks)) =>
                /\ last' = [op |-> "close", outcome |-> "returned"]
                /\ UNCHANGED <<buffer, counter, units>>]_vars

\* stop_all ran on a manager that shares the event and had a record
\* buffered: its close() found the event set and left the record where it was
C38Witness ==
    /\ sharedStop
    /\ smStop
    /\ closes = 1
    /\ last = [op |-> "close", outcome |-> "returned"]
    /\ buffer = <<1>>
    /\ units = NoFiles

====
